---- MODULE Spec2Model ----
(***************************************************************************)
(* SMF-28 fibre end-face simulator (src/fiber_simulation.py) and its conda *)
(* launcher (src/run_in_env.py).                                           *)
(*                                                                         *)
(* Lengths are integers in nanometres.  A LightPipes Field object is a     *)
(* heap cell holding the sequence of library operations that produced it;  *)
(* the numeric content of a field (what Intensity() returns for it) is not *)
(* part of the repository and is a deterministic but unknown function of   *)
(* that sequence, kept in intensityOf and filled in on first use.          *)
(***************************************************************************)
EXTENDS Integers, Sequences, FiniteSets, TLC

\* ------------------------------------------------------------- bounds
\* self.grid_size (512 in the source), scaled down for model checking.
grid_size == 4
\* Number of simulator method calls made by a client before it stops.
MaxCalls == 3
\* Largest exit status of the launcher's child process.
MaxExitCode == 255

\* ------------------------------------------------- program constants
wavelength == 1550
core_radius == 4500
cladding_radius == 62500
\* NA = 0.12, in hundredths.
na == 12
physical_size == 500000
\* distance = 1e-3 m (the default argument and parameter_study's local).
distance == 1000000
test_radius == 50000
\* np.e**2 in thousandths (7.389...): the comparison x > max/e^2 on the
\* model's small integer intensities is decided exactly by it.
E2_MILLI == 7389
\* v_number < 2.405, in thousandths.
V_CUTOFF == 2405

curvature_radii == <<30000, 50000, 75000, 100000, 150000, 200000>>

\* ------------------------------------------------------------ helpers
Rat(n, d) == [n |-> n, d |-> d]
REq(a, b) == a.n * b.d = b.n * a.d
RSub(a, b) == Rat(a.n * b.d - b.n * a.d, a.d * b.d)

Cols == 0 .. (grid_size - 1)

\* floor(sqrt(x)) for the fixed-point evaluation of v_number**1.5.
ISqrt(x) == CHOOSE r \in 0 .. 4000 : r * r <= x /\ (r + 1) * (r + 1) > x

\* np.linspace(start, stop, num): num samples, endpoint included, so the
\* step is (stop - start)/(num - 1).  Entry i is an exact rational.
linspace(start, stop, num) ==
    [i \in 0 .. (num - 1) |->
        IF num = 1 THEN Rat(start, 1)
        ELSE Rat(start * (num - 1) + i * (stop - start), num - 1)]

\* v_number = 2*pi*core_radius*na / wavelength, in thousandths (pi = 355/113).
v_number == (2 * 355 * core_radius * na * 10) \div (113 * wavelength)

\* calculate_mfd, in nm; the Marcuse fit is evaluated in thousandths.
calculate_mfd(v) ==
    IF v < V_CUTOFF
    THEN LET v15 == (v * ISqrt(v * 1000)) \div 1000
             v3  == (((v * v) \div 1000) * v) \div 1000
             v6  == (v3 * v3) \div 1000
             w0_over_a == 650 + (1619 * 1000) \div v15 + (2879 * 1000) \div v6
         IN (2 * w0_over_a * core_radius) \div 1000
    ELSE 2 * core_radius

\* ----------------------------------------------- library operations
\* One LightPipes call, as an entry of a field's derivation.
Op(name, a, b) == [op |-> name, a |-> a, b |-> b]
BeginOp == Op("Begin", physical_size, grid_size)
GaussBeamOp(w0) == Op("GaussBeam", w0, 0)
CircApertureOp(r) == Op("CircAperture", r, 0)
SubPhaseOp(curv, aper) == Op("SubPhase", curv, aper)
FresnelOp(z) == Op("Fresnel", z, 0)

\* A library call on heap cell ref: the input is left alone and the result
\* is a new cell (LightPipes commands return a new Field).
LibCall(h, ref, o) == Append(h, Append(h[ref], o))

\* SMF28Simulator.__init__: the attribute dictionary of the new object; lp
\* refers to heap cell 1, the Begin field.
Constructed ==
    [wavelength |-> wavelength, core_radius |-> core_radius,
     cladding_radius |-> cladding_radius, na |-> na,
     grid_size |-> grid_size, physical_size |-> physical_size,
     lp |-> 1, v_number |-> v_number, mfd |-> calculate_mfd(v_number)]

InitialHeap == << <<BeginOp>> >>

\* create_fiber_mode written the way a single mutable field object would be
\* used: the seeded beam replaces self.lp.
create_fiber_mode_inplace(h, s) ==
    LET h1 == LibCall(h, s.lp, GaussBeamOp(s.mfd \div 2))
        h2 == LibCall(h1, Len(h1), CircApertureOp(s.cladding_radius))
    IN [fields |-> h2, self |-> [s EXCEPT !.lp = Len(h2)], beam |-> Len(h2),
        stages |-> <<GaussBeamOp(s.mfd \div 2), CircApertureOp(s.cladding_radius)>>]

\* create_fiber_mode: Gaussian mode of waist mfd/2 clipped at the cladding.
create_fiber_mode(h, s) ==
    LET h1 == LibCall(h, s.lp, GaussBeamOp(s.mfd \div 2))
        h2 == LibCall(h1, Len(h1), CircApertureOp(s.cladding_radius))
    IN [fields |-> h2, self |-> s, beam |-> Len(h2),
        stages |-> <<GaussBeamOp(s.mfd \div 2), CircApertureOp(s.cladding_radius)>>]

\* Fresnel(beam, z) of the library.  For z > 0 it returns the propagated
\* field.  What it does for z <= 0 is not decided by this repository, so
\* both outcomes (a field, a library exception) are allowed.
FresnelOutcomes(z) == IF z > 0 THEN {"ok"} ELSE {"ok", "raise"}

\* flat_endface(distance): seed, then propagate.  No argument is validated.
flat_endface(h, s, z, outcome) ==
    LET m == create_fiber_mode(h, s)
    IN IF outcome = "ok"
       THEN [fields |-> LibCall(m.fields, m.beam, FresnelOp(z)), self |-> m.self,
             beam |-> Len(m.fields) + 1, stages |-> Append(m.stages, FresnelOp(z)),
             error |-> "none"]
       ELSE [fields |-> m.fields, self |-> m.self, beam |-> 0,
             stages |-> m.stages, error |-> "LibraryError"]

\* The locals of concave_endface that describe its grid and aperture.
concave_locals(s, aperture_factor) ==
    [x |-> linspace(-(s.physical_size \div 2), s.physical_size \div 2, s.grid_size),
     y |-> linspace(-(s.physical_size \div 2), s.physical_size \div 2, s.grid_size),
     aperture_radius |-> s.core_radius * aperture_factor]

\* concave_endface with the clip after the phase mask taken at the cladding
\* radius instead of the mask's aperture radius.
concave_endface_wrong_clip(h, s, curvature_radius, aperture_factor, z, outcome) ==
    LET m  == create_fiber_mode(h, s)
        ar == concave_locals(s, aperture_factor).aperture_radius
        h1 == LibCall(m.fields, m.beam, SubPhaseOp(curvature_radius, ar))
        h2 == LibCall(h1, Len(h1), CircApertureOp(s.cladding_radius))
        st == m.stages \o <<SubPhaseOp(curvature_radius, ar), CircApertureOp(s.cladding_radius)>>
    IN IF outcome = "ok"
       THEN [fields |-> LibCall(h2, Len(h2), FresnelOp(z)), self |-> m.self,
             beam |-> Len(h2) + 1, stages |-> Append(st, FresnelOp(z)), error |-> "none"]
       ELSE [fields |-> h2, self |-> m.self, beam |-> 0, stages |-> st,
             error |-> "LibraryError"]

\* concave_endface: seed, phase mask over aperture_radius, clip at the same
\* aperture_radius, propagate.
concave_endface(h, s, curvature_radius, aperture_factor, z, outcome) ==
    LET m  == create_fiber_mode(h, s)
        ar == concave_locals(s, aperture_factor).aperture_radius
        h1 == LibCall(m.fields, m.beam, SubPhaseOp(curvature_radius, ar))
        h2 == LibCall(h1, Len(h1), CircApertureOp(ar))
        st == m.stages \o <<SubPhaseOp(curvature_radius, ar), CircApertureOp(ar)>>
    IN IF outcome = "ok"
       THEN [fields |-> LibCall(h2, Len(h2), FresnelOp(z)), self |-> m.self,
             beam |-> Len(h2) + 1, stages |-> Append(st, FresnelOp(z)), error |-> "none"]
       ELSE [fields |-> h2, self |-> m.self, beam |-> 0, stages |-> st,
             error |-> "LibraryError"]

\* ------------------------------------------------------ analyze_beam
\* A beam width is either the Python int 0 of the else branch or a numpy
\* float64, kept as the exact rational num/den.
PyInt0 == [kind |-> "int", num |-> 0, den |-> 1]
Float64(n, d) == [kind |-> "float64", num |-> n, den |-> d]

\* np.max over the whole array.
ArrayMax(intensity) ==
    LET vals == {intensity[r][c] : r \in Cols, c \in Cols}
    IN CHOOSE m \in vals : \A v \in vals : v <= m

\* x > max_intensity / np.e**2
AboveThreshold(x, max_intensity) == x * E2_MILLI > max_intensity * 1000

\* analyze_beam with the profile taken along the centre column.
analyze_beam_column(s, intensity) ==
    LET center_idx == s.grid_size \div 2
        x_profile == [c \in Cols |-> intensity[c][center_idx]]
        max_intensity == ArrayMax(intensity)
        Hit(c) == AboveThreshold(x_profile[c], max_intensity)
        x_indices == SelectSeq([i \in 1 .. s.grid_size |-> i - 1], Hit)
    IN [intensity |-> intensity,
        beam_width |-> IF Len(x_indices) > 0
                       THEN Float64((x_indices[Len(x_indices)] - x_indices[1]) * s.physical_size,
                                    s.grid_size)
                       ELSE PyInt0,
        max_intensity |-> max_intensity,
        x_coords |-> linspace(-(s.physical_size \div 2), s.physical_size \div 2, s.grid_size),
        x_profile |-> x_profile]

\* analyze_beam: the returned dictionary, with exactly the code's keys.
analyze_beam(s, intensity) ==
    LET center_idx == s.grid_size \div 2
        x_profile == intensity[center_idx]
        max_intensity == ArrayMax(intensity)
        Hit(c) == AboveThreshold(x_profile[c], max_intensity)
        \* np.where(...)[0]: the indices above threshold, ascending
        x_indices == SelectSeq([i \in 1 .. s.grid_size |-> i - 1], Hit)
    IN [intensity |-> intensity,
        beam_width |-> IF Len(x_indices) > 0
                       THEN Float64((x_indices[Len(x_indices)] - x_indices[1]) * s.physical_size,
                                    s.grid_size)
                       ELSE PyInt0,
        max_intensity |-> max_intensity,
        x_coords |-> linspace(-(s.physical_size \div 2), s.physical_size \div 2, s.grid_size),
        x_profile |-> x_profile]

\* ---------------------------------------------------- intensity arrays
\* An N x N array whose centre row is row and whose other rows hold off.
Array(row, off) ==
    [r \in Cols |-> IF r = grid_size \div 2 THEN row ELSE [c \in Cols |-> off]]

Levels == {0, 1, 2, 8}

\* Inputs for analyze_beam alone: every centre row over Levels, with the
\* rest of the array at any level (so the global maximum may lie off the row).
RichArrays == {Array(row, off) : row \in [Cols -> Levels], off \in Levels}

\* Intensities the library may return in the method-call and sweep runs:
\* a zero field, a single bright sample, two adjacent samples, a full row.
Profiles ==
    {Array([c \in Cols |-> 0], 0),
     Array([c \in Cols |-> IF c = grid_size \div 2 THEN 8 ELSE 0], 0),
     Array([c \in Cols |-> IF c \in {(grid_size \div 2) - 1, grid_size \div 2} THEN 8 ELSE 1], 0),
     Array([c \in Cols |-> 8], 0)}

\* Intensity(beam): the array already fixed for this field, or any array
\* when the field is met for the first time.
Choices(f, term) == IF term \in DOMAIN f THEN {f[term]} ELSE Profiles
Ext(f, term, arr) ==
    IF term \in DOMAIN f THEN f
    ELSE [t \in DOMAIN f \cup {term} |-> IF t = term THEN arr ELSE f[t]]

\* ------------------------------------------------------------- state
VARIABLES
    self,         \* the simulator's attributes
    fields,       \* heap of Field objects: cell i holds its derivation
    intensityOf,  \* Intensity() of the fields analysed so far
    pc,           \* "idle", "sweep", "returned", "raised"
    calls,        \* method calls made by the client so far
    call,         \* the last call: method and arguments
    stages,       \* library stages executed by the last call, in order
    axes,         \* coordinate axes built by the last call
    ret_beam,     \* heap cell returned by the last call (0: none)
    ret_analysis, \* dictionary returned by the last analyze_beam call
    ret_study,    \* dictionary returned by parameter_study
    error,        \* exception that ended the run ("none": none)
    study,        \* parameter_study's loop index and the two lists
    launcher      \* run_in_env.main: position, inputs, outcome

vars == <<self, fields, intensityOf, pc, calls, call, stages, axes, ret_beam,
          ret_analysis, ret_study, error, study, launcher>>

simVars == <<self, fields, intensityOf, pc, calls, call, stages, axes, ret_beam,
             ret_analysis, ret_study, error, study>>

Call(m, ref, curv, af, z) ==
    [method |-> m, ref |-> ref, curvature_radius |-> curv, aperture_factor |-> af,
     distance |-> z]

NoStudy == [i |-> 0, beam_widths_flat |-> <<>>, beam_widths_concave |-> <<>>]
LauncherIdle == [pc |-> "off", file_exists |-> FALSE, invoked |-> FALSE,
                 returncode |-> 0, outcome |-> "none"]

\* State after simulator = SMF28Simulator().
InitSim ==
    /\ self = Constructed
    /\ fields = InitialHeap
    /\ intensityOf = [t \in {} |-> 0]
    /\ pc = "idle"
    /\ calls = 0
    /\ call = Call("__init__", 0, 0, 0, 0)
    /\ stages = <<>>
    /\ axes = {}
    /\ ret_beam = 0
    /\ ret_analysis = {}
    /\ ret_study = {}
    /\ error = "none"
    /\ study = NoStudy

Init == InitSim /\ launcher = LauncherIdle

\* Arguments a client passes.
Distances == {-1000, 0, distance}
Radii == {test_radius}
ApertureFactors == {2}

\* ------------------------------------------------------ method calls
CallCreateFiberMode ==
    /\ pc = "idle" /\ calls < MaxCalls
    /\ LET m == create_fiber_mode(fields, self)
       IN /\ fields' = m.fields
          /\ self' = m.self
          /\ ret_beam' = m.beam
          /\ stages' = m.stages
    /\ calls' = calls + 1
    /\ call' = Call("create_fiber_mode", 0, 0, 0, 0)
    /\ axes' = {}
    /\ ret_analysis' = {}
    /\ UNCHANGED <<intensityOf, pc, ret_study, error, study, launcher>>

CallFlatEndface ==
    /\ pc = "idle" /\ calls < MaxCalls
    /\ \E z \in Distances : \E outcome \in FresnelOutcomes(z) :
         LET m == flat_endface(fields, self, z, outcome)
         IN /\ fields' = m.fields
            /\ self' = m.self
            /\ ret_beam' = m.beam
            /\ stages' = m.stages
            /\ error' = m.error
            /\ pc' = IF m.error = "none" THEN "idle" ELSE "raised"
            /\ call' = Call("flat_endface", 0, 0, 0, z)
    /\ calls' = calls + 1
    /\ axes' = {}
    /\ ret_analysis' = {}
    /\ UNCHANGED <<intensityOf, ret_study, study, launcher>>

CallConcaveEndface ==
    /\ pc = "idle" /\ calls < MaxCalls
    /\ \E curv \in Radii : \E af \in ApertureFactors : \E z \in Distances :
       \E outcome \in FresnelOutcomes(z) :
         LET m == concave_endface(fields, self, curv, af, z, outcome)
             loc == concave_locals(self, af)
         IN /\ fields' = m.fields
            /\ self' = m.self
            /\ ret_beam' = m.beam
            /\ stages' = m.stages
            /\ error' = m.error
            /\ pc' = IF m.error = "none" THEN "idle" ELSE "raised"
            /\ call' = Call("concave_endface", 0, curv, af, z)
            /\ axes' = {loc.x, loc.y}
    /\ calls' = calls + 1
    /\ ret_analysis' = {}
    /\ UNCHANGED <<intensityOf, ret_study, study, launcher>>

CallAnalyzeBeam ==
    /\ pc = "idle" /\ calls < MaxCalls
    /\ \E ref \in 1 .. Len(fields) : \E arr \in Choices(intensityOf, fields[ref]) :
         LET a == analyze_beam(self, arr)
         IN /\ intensityOf' = Ext(intensityOf, fields[ref], arr)
            /\ ret_analysis' = {a}
            /\ axes' = {a.x_coords}
            /\ call' = Call("analyze_beam", ref, 0, 0, 0)
    /\ calls' = calls + 1
    /\ stages' = <<>>
    /\ ret_beam' = 0
    /\ UNCHANGED <<self, fields, pc, ret_study, error, study, launcher>>

\* --------------------------------------------------- parameter_study
\* a / b on two beam widths.  Python raises ZeroDivisionError only when
\* both operands are Python ints; with a numpy float64 on either side the
\* division yields inf or nan and a RuntimeWarning.
TrueDivRaises(a, b) == a.kind = "int" /\ b.kind = "int" /\ b.num = 0

\* The loop body with each new width put at the front of its list.
study_iteration_prepend(h, s, f, acc, radius) ==
    LET fl == flat_endface(h, s, distance, "ok")
        fa == analyze_beam(s, f[fl.fields[fl.beam]])
        co == concave_endface(fl.fields, s, radius, 2, distance, "ok")
        ca == analyze_beam(s, f[co.fields[co.beam]])
    IN [fields |-> co.fields,
        study |-> [i |-> acc.i + 1,
                   beam_widths_flat |-> <<fa.beam_width>> \o acc.beam_widths_flat,
                   beam_widths_concave |-> <<ca.beam_width>> \o acc.beam_widths_concave]]

\* One iteration of "for radius in curvature_radii": flat and concave beams
\* are computed and analysed afresh and their widths appended.
study_iteration(h, s, f, acc, radius) ==
    LET fl == flat_endface(h, s, distance, "ok")
        fa == analyze_beam(s, f[fl.fields[fl.beam]])
        co == concave_endface(fl.fields, s, radius, 2, distance, "ok")
        ca == analyze_beam(s, f[co.fields[co.beam]])
    IN [fields |-> co.fields,
        study |-> [i |-> acc.i + 1,
                   beam_widths_flat |-> Append(acc.beam_widths_flat, fa.beam_width),
                   beam_widths_concave |-> Append(acc.beam_widths_concave, ca.beam_width)]]

\* The derivations flat_endface and concave_endface give their results.
FlatTerm(s, z) ==
    LET m == flat_endface(InitialHeap, s, z, "ok") IN m.fields[m.beam]
ConcaveTerm(s, curv, af, z) ==
    LET m == concave_endface(InitialHeap, s, curv, af, z, "ok") IN m.fields[m.beam]

\* The printed summary: the last line divides the last concave width by the
\* last flat width, unguarded.
summary(flat, concave) ==
    IF TrueDivRaises(concave[Len(concave)], flat[Len(flat)])
    THEN "ZeroDivisionError" ELSE "none"

\* simulator.parameter_study() as main() calls it, on the new simulator.
StudyStart ==
    /\ pc = "idle" /\ calls = 0
    /\ pc' = "sweep"
    /\ study' = NoStudy
    /\ call' = Call("parameter_study", 0, 0, 0, 0)
    /\ UNCHANGED <<self, fields, intensityOf, calls, stages, axes, ret_beam,
                   ret_analysis, ret_study, error, launcher>>

StudyIterate ==
    /\ pc = "sweep" /\ study.i < Len(curvature_radii)
    /\ LET radius == curvature_radii[study.i + 1]
           tf == FlatTerm(self, distance)
           tc == ConcaveTerm(self, radius, 2, distance)
       IN \E a1 \in Choices(intensityOf, tf) :
          \E a2 \in Choices(Ext(intensityOf, tf, a1), tc) :
            LET f2 == Ext(Ext(intensityOf, tf, a1), tc, a2)
                r == study_iteration(fields, self, f2, study, radius)
            IN /\ intensityOf' = f2
               /\ fields' = r.fields
               /\ study' = r.study
    /\ UNCHANGED <<self, pc, calls, call, stages, axes, ret_beam, ret_analysis,
                   ret_study, error, launcher>>

\* After the loop: the figures (flat and concave beams at test_radius are
\* computed and analysed once more), the summary, the return.
StudyFinish ==
    /\ pc = "sweep" /\ study.i = Len(curvature_radii)
    /\ LET fl == flat_endface(fields, self, distance, "ok")
           co == concave_endface(fl.fields, self, test_radius, 2, distance, "ok")
           e == summary(study.beam_widths_flat, study.beam_widths_concave)
       IN /\ fields' = co.fields
          /\ error' = e
          /\ pc' = IF e = "none" THEN "returned" ELSE "raised"
          /\ ret_study' = IF e = "none"
                          THEN {[curvature_radii |-> curvature_radii,
                                 beam_widths_flat |-> study.beam_widths_flat,
                                 beam_widths_concave |-> study.beam_widths_concave]}
                          ELSE {}
    /\ UNCHANGED <<self, intensityOf, calls, call, stages, axes, ret_beam,
                   ret_analysis, study, launcher>>

Next ==
    \/ CallCreateFiberMode
    \/ CallFlatEndface
    \/ CallConcaveEndface
    \/ CallAnalyzeBeam
    \/ StudyStart
    \/ StudyIterate
    \/ StudyFinish

Spec == Init /\ [][Next]_vars

\* ------------------------------------------------- analyze_beam alone
\* State after simulator = SMF28Simulator(); beam = simulator.flat_endface(),
\* with any intensity array as the propagated field's content.
InitAnalyze ==
    /\ \E arr \in RichArrays :
         intensityOf = [t \in {FlatTerm(Constructed, distance)} |-> arr]
    /\ LET m == flat_endface(InitialHeap, Constructed, distance, "ok")
       IN /\ fields = m.fields
          /\ ret_beam = m.beam
          /\ stages = m.stages
    /\ self = Constructed
    /\ pc = "idle"
    /\ calls = MaxCalls - 1
    /\ call = Call("flat_endface", 0, 0, 0, distance)
    /\ axes = {}
    /\ ret_analysis = {}
    /\ ret_study = {}
    /\ error = "none"
    /\ study = NoStudy
    /\ launcher = LauncherIdle

SpecAnalyze == InitAnalyze /\ [][CallAnalyzeBeam]_vars

\* ------------------------------------------------------ run_in_env.py
ExitCodes == 0 .. MaxExitCode

\* subprocess.run(cmd, shell=True, check=False): no exception on a
\* non-zero exit status, so success is always reported.
launcher_report_unchecked(returncode) == "success"

\* subprocess.run(cmd, shell=True, check=True) inside try/except
\* CalledProcessError: True ("success") on status 0, else False ("failure").
launcher_report(returncode) == IF returncode = 0 THEN "success" ELSE "failure"

InitLauncher ==
    /\ InitSim
    /\ \E b \in BOOLEAN : launcher = [LauncherIdle EXCEPT !.pc = "start", !.file_exists = b]

\* os.path.exists("fiber_optics_simulation.py") is false: report and return
\* False without running anything.
LauncherFileMissing ==
    /\ launcher.pc = "start" /\ ~launcher.file_exists
    /\ launcher' = [launcher EXCEPT !.pc = "done", !.outcome = "failure"]
    /\ UNCHANGED simVars

\* The file exists: run the simulation under conda and report by its status.
LauncherRun ==
    /\ launcher.pc = "start" /\ launcher.file_exists
    /\ \E code \in ExitCodes :
         launcher' = [launcher EXCEPT !.pc = "done", !.invoked = TRUE,
                                      !.returncode = code,
                                      !.outcome = launcher_report(code)]
    /\ UNCHANGED simVars

NextLauncher == LauncherFileMissing \/ LauncherRun

SpecLauncher == InitLauncher /\ [][NextLauncher]_vars

\* ------------------------------------------------------------- claims
\* Columns of the centre row whose intensity strictly exceeds
\* max(whole array)/e^2, and the extreme elements of a set of columns.
HitColumns(arr) ==
    LET top == CHOOSE m \in {arr[r][c] : r \in Cols, c \in Cols} :
                   \A r \in Cols, c \in Cols : arr[r][c] <= m
    IN {c \in Cols : arr[grid_size \div 2][c] * E2_MILLI > top * 1000}
First(S) == CHOOSE c \in S : \A d \in S : c <= d
Last(S) == CHOOSE c \in S : \A d \in S : d <= c

\* The array analyze_beam was last called on.
Analysed == intensityOf[fields[call.ref]]

\* C1: analyze_beam returns beam_width = (index of the last sample minus
\* index of the first sample of the centre row N//2 that strictly exceeds
\* max(intensity)/e^2) * (L / N).
C1_BeamWidthFormula ==
    \A a \in ret_analysis :
        HitColumns(Analysed) # {} =>
            /\ a.beam_width.kind = "float64"
            /\ a.beam_width.num * grid_size =
                   (Last(HitColumns(Analysed)) - First(HitColumns(Analysed)))
                       * physical_size * a.beam_width.den

\* An analysis of an array whose maximum lies off the centre row, with
\* samples of the row on both sides of the threshold and a positive width.
C1_Witness ==
    \E a \in ret_analysis :
        /\ Cardinality(HitColumns(Analysed)) \in 2 .. (grid_size - 1)
        /\ a.beam_width.num > a.beam_width.den * (physical_size \div grid_size)
        /\ \E c \in Cols : Analysed[0][c] > Analysed[grid_size \div 2][Last(HitColumns(Analysed))]
        /\ \E c \in Cols : c \notin HitColumns(Analysed) /\ Analysed[grid_size \div 2][c] > 0

\* C2: when no sample of the centre row exceeds the threshold, analyze_beam
\* returns beam_width = 0 together with an explicit degenerate flag.
C2_DegenerateFlag ==
    \A a \in ret_analysis :
        HitColumns(Analysed) = {} =>
            /\ a.beam_width.num = 0
            /\ "degenerate" \in DOMAIN a

\* C3: the summary of parameter_study is guarded against division by zero:
\* whenever the last flat width is 0 the summary completes without raising
\* and parameter_study returns its result.
C3_SummaryGuarded ==
    (/\ call.method = "parameter_study"
     /\ pc \in {"returned", "raised"}
     /\ study.beam_widths_flat[Len(study.beam_widths_flat)].num = 0)
        => (error = "none" /\ ret_study # {})

\* C4: a propagation distance <= 0 passed to flat_endface or concave_endface
\* is rejected with a ConfigurationError before any pipeline stage executes.
C4_Rejected ==
    (call.method \in {"flat_endface", "concave_endface"} /\ call.distance <= 0)
        => (error = "ConfigurationError" /\ stages = <<>> /\ ret_beam = 0)

\* C5: in the result of parameter_study the three sequences have equal
\* length, the radii are the swept radii in sweep order, and entry i of each
\* width list is the metric computed for curvature_radii[i].
C5_SweepOrdered ==
    /\ Len(study.beam_widths_flat) = study.i
    /\ Len(study.beam_widths_concave) = study.i
    /\ \A r \in ret_study :
        /\ r.curvature_radii = curvature_radii
        /\ Len(r.beam_widths_flat) = Len(r.curvature_radii)
        /\ Len(r.beam_widths_concave) = Len(r.curvature_radii)
        /\ \A i \in 1 .. Len(r.curvature_radii) :
            /\ r.beam_widths_flat[i] =
                   analyze_beam(Constructed, intensityOf[FlatTerm(Constructed, distance)]).beam_width
            /\ r.beam_widths_concave[i] =
                   analyze_beam(Constructed,
                       intensityOf[ConcaveTerm(Constructed, r.curvature_radii[i], 2, distance)]).beam_width

\* A returned sweep whose concave widths differ between the first and the
\* last radius and include a degenerate one.
C5_Witness ==
    \E r \in ret_study :
        /\ r.beam_widths_concave[1] # r.beam_widths_concave[Len(r.beam_widths_concave)]
        /\ r.beam_widths_concave[2] # r.beam_widths_concave[1]
        /\ \E i \in 1 .. Len(r.beam_widths_concave) : r.beam_widths_concave[i].kind = "int"

\* C6: the simulator's parameters and base field keep their constructed
\* values, and no field object is changed once created: every call only adds
\* new objects.
C6_Immutable ==
    /\ [](self = Constructed /\ fields[self.lp] = <<BeginOp>>)
    /\ [][/\ Len(fields') >= Len(fields)
          /\ \A i \in 1 .. Len(fields) : fields'[i] = fields[i]]_vars

\* After a flat and a concave call and an analysis, in that client.
C6_Witness ==
    /\ calls >= 3
    /\ \E i, j \in 1 .. Len(fields) :
        /\ fields[i][Len(fields[i])].op = "Fresnel"
        /\ fields[j][Len(fields[j])].op = "Fresnel"
        /\ \E k \in 1 .. Len(fields[i]) : fields[i][k].op = "SubPhase"
        /\ \A k \in 1 .. Len(fields[j]) : fields[j][k].op # "SubPhase"
    /\ ret_analysis # {}

\* C8 as stated: every launcher run invokes the simulation and reports
\* success exactly on exit code 0 and failure exactly on a non-zero code.
C8_ExitCodeDecides ==
    launcher.pc = "done" =>
        /\ launcher.invoked
        /\ (launcher.outcome = "success") <=> (launcher.returncode = 0)
        /\ (launcher.outcome = "failure") <=> (launcher.returncode # 0)

\* C8 amended: a run that finds the simulation file invokes the process and
\* reports success exactly on exit code 0 and failure exactly on a non-zero
\* code; a run that does not find the file reports failure without invoking it.
C8_ExitCodeDecidesWhenFileExists ==
    launcher.pc = "done" =>
        IF launcher.file_exists
        THEN /\ launcher.invoked
             /\ (launcher.outcome = "success") <=> (launcher.returncode = 0)
             /\ (launcher.outcome = "failure") <=> (launcher.returncode # 0)
        ELSE ~launcher.invoked /\ launcher.outcome = "failure"

C8_Witness ==
    /\ launcher.pc = "done" /\ launcher.invoked
    /\ launcher.returncode # 0 /\ launcher.outcome = "failure"

\* C9: concave_endface runs seed, clip at the cladding radius, phase mask,
\* clip at aperture_radius = core_radius * aperture_factor, propagate, in
\* that order; and no field is propagated after a phase mask without a clip
\* in between at the aperture radius the mask was built with.
C9_StageOrder ==
    /\ call.method = "concave_endface" =>
         LET ar == core_radius * call.aperture_factor
             order == <<"GaussBeam", "CircAperture", "SubPhase", "CircAperture", "Fresnel">>
             n == IF error = "none" THEN 5 ELSE 4
         IN /\ Len(stages) = n
            /\ \A k \in 1 .. n : stages[k].op = order[k]
            /\ stages[2].a = cladding_radius
            /\ stages[3].b = ar
            /\ stages[4].a = ar
    /\ \A i \in 1 .. Len(fields) : \A j \in 1 .. Len(fields[i]) : \A k \in 1 .. j :
         (fields[i][j].op = "Fresnel" /\ fields[i][k].op = "SubPhase") =>
             \E m \in (k + 1) .. (j - 1) : fields[i][m] = CircApertureOp(fields[i][k].b)

C9_Witness ==
    /\ call.method = "concave_endface" /\ error = "none"
    /\ ret_beam > 0 /\ Len(fields[ret_beam]) = 6
    /\ fields[ret_beam][6].op = "Fresnel"

\* C10: every coordinate axis the pipeline builds has N samples whose
\* adjacent spacing is exactly L/N.
C10_AxisSpacing ==
    \A ax \in axes :
        /\ DOMAIN ax = Cols
        /\ \A i \in 0 .. (grid_size - 2) :
               REq(RSub(ax[i + 1], ax[i]), Rat(physical_size, grid_size))

====
